---- MODULE Spec2Model ----
(***************************************************************************)
(* Model of resume_analyzer.py: the ResumeAnalyzer class (text extraction, *)
(* section / keyword / contact analysis, scoring, recommendations) and the *)
(* analyze-button handler of the page script.                              *)
(*                                                                         *)
(* Texts are TLA+ strings and are scanned character by character, as the   *)
(* Python code does.  Python's None is the empty tuple and a present value *)
(* x is the one-element tuple <<x>>.  Percentages and scores, which the     *)
(* code rounds to 2 decimals, are integers counting hundredths             *)
(* (11.11 is 1111).                                                        *)
(***************************************************************************)
EXTENDS Integers, Sequences, FiniteSets, TLC

VARIABLES keyword_categories, pc, uploaded_file, text, analysis,
          recommendations, messages, calls

vars == <<keyword_categories, pc, uploaded_file, text, analysis,
          recommendations, messages, calls>>

None == <<>>

Some(x) == <<x>>

(***************************************************************************)
(* Characters and the str methods the code uses.                           *)
(***************************************************************************)
UpperCase == "ABCDEFGHIJKLMNOPQRSTUVWXYZ"

LowerCase == "abcdefghijklmnopqrstuvwxyz"

Chars(s) == {SubSeq(s, k, k) : k \in 1..Len(s)}

Letters == Chars(UpperCase) \cup Chars(LowerCase)

Digits == Chars("0123456789")

\* \s of the re module, over the characters the texts are built from
Whitespace == {" ", "\n", "\t"}

\* \w of the re module
WordChars == Letters \cup Digits \cup {"_"}

\* s[i-1] of Python, "" outside the string
CharAt(s, i) == IF i >= 1 /\ i <= Len(s) THEN SubSeq(s, i, i) ELSE ""

ToLower(c) ==
    IF c \in Chars(UpperCase)
    THEN LET k == CHOOSE j \in 1..26 : SubSeq(UpperCase, j, j) = c
         IN  SubSeq(LowerCase, k, k)
    ELSE c

ToUpper(c) ==
    IF c \in Chars(LowerCase)
    THEN LET k == CHOOSE j \in 1..26 : SubSeq(LowerCase, j, j) = c
         IN  SubSeq(UpperCase, k, k)
    ELSE c

LowerAt(s, i) == ToLower(CharAt(s, i))

UnderscoreToSpaceAt(s, i) == IF CharAt(s, i) = "_" THEN " " ELSE CharAt(s, i)

TitleAt(s, i) ==
    IF CharAt(s, i - 1) \in Letters THEN ToLower(CharAt(s, i))
    ELSE ToUpper(CharAt(s, i))

\* the character a str method puts at index i of its result
MappedAt(method, s, i) ==
    CASE method = "lower" -> LowerAt(s, i)
      [] method = "replace" -> UnderscoreToSpaceAt(s, i)
      [] method = "title" -> TitleAt(s, i)

RECURSIVE MapStr(_, _, _, _)
MapStr(method, s, lo, hi) ==
    IF lo > hi THEN ""
    ELSE IF lo = hi THEN MappedAt(method, s, lo)
    ELSE LET mid == (lo + hi) \div 2
         IN  MapStr(method, s, lo, mid) \o MapStr(method, s, mid + 1, hi)

\* str.lower()
lower(s) == MapStr("lower", s, 1, Len(s))

\* str.replace('_', ' ')
replace_underscore(s) == MapStr("replace", s, 1, Len(s))

\* str.title()
title(s) == MapStr("title", s, 1, Len(s))

\* str.strip()
strip(s) ==
    LET solid == {i \in 1..Len(s) : CharAt(s, i) \notin Whitespace}
    IN  IF solid = {} THEN ""
        ELSE SubSeq(s, CHOOSE i \in solid : \A j \in solid : i <= j,
                       CHOOSE i \in solid : \A j \in solid : i >= j)

\* len(s.split()): the number of whitespace-delimited tokens
SplitCount(s) ==
    Cardinality({i \in 1..Len(s) :
        /\ CharAt(s, i) \notin Whitespace
        /\ (i = 1 \/ CharAt(s, i - 1) \in Whitespace)})

\* Python's  kw in s
Contains(kw, s) ==
    \E i \in 1..(Len(s) - Len(kw) + 1) : SubSeq(s, i, i + Len(kw) - 1) = kw

RECURSIVE Join(_, _)
\* sep.join(parts)
Join(sep, parts) ==
    IF parts = <<>> THEN ""
    ELSE IF Len(parts) = 1 THEN parts[1]
    ELSE parts[1] \o sep \o Join(sep, Tail(parts))

\* lst[:n]
Take(lst, n) == SubSeq(lst, 1, IF Len(lst) < n THEN Len(lst) ELSE n)

\* x in lst
InList(x, lst) == \E k \in 1..Len(lst) : lst[k] = x

\* bool(x) of an Optional[str]
Truthy(o) == o # None /\ o[1] # ""

\* round(n / d, 0) for n >= 0, d > 0: Python rounds halves to even
RoundHalfEven(n, d) ==
    LET q == n \div d
        r == n % d
    IN  IF 2 * r < d THEN q
        ELSE IF 2 * r > d THEN q + 1
        ELSE IF q % 2 = 0 THEN q ELSE q + 1

(***************************************************************************)
(* class ResumeAnalyzer                                                    *)
(***************************************************************************)
\* the key order of the keyword_categories dict
CategoryOrder == <<"technical_skills", "soft_skills", "action_verbs">>

\* __init__: the value of self.keyword_categories
ResumeAnalyzer ==
    [technical_skills |-> <<"python", "java", "javascript", "sql", "html",
                            "css", "react", "git", "aws">>,
     soft_skills      |-> <<"communication", "leadership", "teamwork",
                            "problem solving", "time management">>,
     action_verbs     |-> <<"developed", "managed", "implemented", "created",
                            "led", "analyzed">>]

\* the key order of the section_patterns dict
SectionOrder == <<"contact_info", "experience", "education", "skills", "projects">>

\* section_patterns: each pattern is an alternation of literals
section_patterns ==
    [contact_info |-> <<"contact", "phone", "email", "address">>,
     experience   |-> <<"experience", "work history", "employment">>,
     education    |-> <<"education", "academic">>,
     skills       |-> <<"skills", "technical skills">>,
     projects     |-> <<"projects", "portfolio">>]

\* re.search(pattern, s) is not None, for an alternation of literals
re_search(alternatives, s) ==
    \E k \in 1..Len(alternatives) : Contains(alternatives[k], s)

detect_sections(t) ==
    LET text_lower == lower(t)
        Detected(section) == re_search(section_patterns[section], text_lower)
    IN  SelectSeq(SectionOrder, Detected)

important_sections == <<"contact_info", "experience", "education", "skills">>

\* find_missing_sections over all five tags
find_missing_sections_of_all(found_sections) ==
    LET Missing(section) == ~InList(section, found_sections)
    IN  SelectSeq(SectionOrder, Missing)

find_missing_sections(found_sections) ==
    LET Missing(section) == ~InList(section, found_sections)
    IN  SelectSeq(important_sections, Missing)

\* CategoryScore with the coverage cut to 2 decimals instead of rounded
CategoryScoreTruncated(keywords, text_lower) ==
    LET Found(kw) == Contains(kw, text_lower)
        found_keywords == SelectSeq(keywords, Found)
        NotFound(kw) == ~InList(kw, found_keywords)
        coverage == IF keywords # <<>>
                    THEN (Len(found_keywords) * 10000) \div Len(keywords)
                    ELSE 0
    IN  [coverage_percentage |-> coverage,
         found_keywords      |-> found_keywords,
         missing_keywords    |-> SelectSeq(keywords, NotFound)]

\* one entry of the scores dict of analyze_keywords
CategoryScore(keywords, text_lower) ==
    LET Found(kw) == Contains(kw, text_lower)
        found_keywords == SelectSeq(keywords, Found)
        NotFound(kw) == ~InList(kw, found_keywords)
        coverage == IF keywords # <<>>
                    THEN RoundHalfEven(Len(found_keywords) * 10000, Len(keywords))
                    ELSE 0
    IN  [coverage_percentage |-> coverage,
         found_keywords      |-> found_keywords,
         missing_keywords    |-> SelectSeq(keywords, NotFound)]

analyze_keywords(self, t) ==
    LET text_lower == lower(t)
    IN  [category \in DOMAIN self |-> CategoryScore(self[category], text_lower)]

RECURSIVE RunEnd(_, _, _)
\* the index of the last character of the longest run of characters of class
\* that starts at s[i]; i - 1 when s[i] is not of the class
RunEnd(s, i, class) ==
    IF CharAt(s, i) \in class THEN RunEnd(s, i + 1, class) ELSE i - 1

Max(S) == CHOOSE x \in S : \A y \in S : x >= y

Min(S) == CHOOSE x \in S : \A y \in S : x <= y

\* \b of the re module, between s[i-1] and s[i]
WordBoundary(s, i) ==
    (CharAt(s, i - 1) \in WordChars) # (CharAt(s, i) \in WordChars)

EmailLocal == Letters \cup Digits \cup {".", "_", "%", "+", "-"}

EmailDomain == Letters \cup Digits \cup {".", "-"}

\* the class [A-Z|a-z] of the pattern holds the bar as well
EmailTld == Letters \cup {"|"}

\* email_pattern matched at index i: the index of the last character of the
\* match, 0 when there is none.  The local part is its whole run (a shorter
\* one is followed by a local-part character, not by @); the greedy domain
\* gives way to the last dot that a suffix of 2 or more characters follows,
\* and the greedy suffix to its longest length ending at a word boundary.
EmailMatchEnd(s, i) ==
    IF ~(WordBoundary(s, i) /\ CharAt(s, i) \in EmailLocal) THEN 0
    ELSE LET at == RunEnd(s, i, EmailLocal) + 1
         IN  IF CharAt(s, at) # "@" THEN 0
             ELSE LET Ends(dot) == {q \in (dot + 2)..RunEnd(s, dot + 1, EmailTld) :
                                        WordBoundary(s, q + 1)}
                      dots == {dot \in (at + 2)..RunEnd(s, at + 1, EmailDomain) :
                                  CharAt(s, dot) = "." /\ Ends(dot) # {}}
                  IN  IF dots = {} THEN 0 ELSE Max(Ends(Max(dots)))

\* re.findall(email_pattern, s)[0], None when findall returns no match
FirstEmail(s) ==
    LET starts == {i \in 1..Len(s) : EmailMatchEnd(s, i) > 0}
    IN  IF starts = {} THEN None
        ELSE Some(SubSeq(s, Min(starts), EmailMatchEnd(s, Min(starts))))

PhoneSeparator == {"-", "."} \cup Whitespace

AllDigits(s, i, n) == \A k \in 0..(n - 1) : CharAt(s, i + k) \in Digits

\* The ways to match the group (\+?\d{1,3}[-.\s]?) in the order a
\* backtracking matcher tries them (greedy: the sign before none, more
\* digits before fewer, the separator before none): <<sign, digits, sep>>
GroupChoices ==
    [g \in 1..12 |-> <<IF g <= 6 THEN 1 ELSE 0,
                       3 - (((g - 1) % 6) \div 2),
                       1 - ((g - 1) % 2)>>]

\* The ways to match the optional items of \(?\d{3}\)?[-.\s]?\d{3}[-.\s]?\d{4}
\* in the order they are tried: <<open, close, sep1, sep2>>, 1 = taken
RestChoices ==
    [c \in 1..16 |-> <<((16 - c) \div 8) % 2, ((16 - c) \div 4) % 2,
                       ((16 - c) \div 2) % 2, (16 - c) % 2>>]

\* the index after the group matched at i with choice ch, 0 when it fails
GroupTry(s, i, ch) ==
    LET d == i + ch[1]
        e == d + ch[2]
    IN  IF /\ ch[1] = 1 => CharAt(s, i) = "+"
           /\ AllDigits(s, d, ch[2])
           /\ ch[3] = 1 => CharAt(s, e) \in PhoneSeparator
        THEN e + ch[3]
        ELSE 0

\* the index after the rest of the pattern matched at j with choice ch
RestTry(s, j, ch) ==
    LET a == j + ch[1]
        b == a + 3
        c == b + ch[2]
        d == c + ch[3]
        e == d + 3
        f == e + ch[4]
    IN  IF /\ ch[1] = 1 => CharAt(s, j) = "("
           /\ AllDigits(s, a, 3)
           /\ ch[2] = 1 => CharAt(s, b) = ")"
           /\ ch[3] = 1 => CharAt(s, c) \in PhoneSeparator
           /\ AllDigits(s, d, 3)
           /\ ch[4] = 1 => CharAt(s, e) \in PhoneSeparator
           /\ AllDigits(s, f, 4)
        THEN f + 4
        ELSE 0

\* the first choice for the rest that succeeds at j
RestEnd(s, j) ==
    LET hits == {c \in 1..16 : RestTry(s, j, RestChoices[c]) > 0}
    IN  IF hits = {} THEN 0 ELSE RestTry(s, j, RestChoices[Min(hits)])

\* phone_pattern matched at index i: None, or the indexes of the match and
\* the text of group 1 ("" when the group took no part in the match)
PhoneMatchAt(s, i) ==
    LET Works(g) == /\ GroupTry(s, i, GroupChoices[g]) > 0
                    /\ RestEnd(s, GroupTry(s, i, GroupChoices[g])) > 0
        with == {g \in 1..12 : Works(g)}
    IN  IF with # {}
        THEN LET j == GroupTry(s, i, GroupChoices[Min(with)])
             IN  Some([first |-> i, last |-> RestEnd(s, j) - 1,
                       group |-> SubSeq(s, i, j - 1)])
        ELSE IF RestEnd(s, i) > 0
        THEN Some([first |-> i, last |-> RestEnd(s, i) - 1, group |-> ""])
        ELSE None

\* the first match re.findall(phone_pattern, s) scans, None without a match
FirstPhoneMatch(s) ==
    LET starts == {i \in 1..Len(s) : PhoneMatchAt(s, i) # None}
    IN  IF starts = {} THEN None ELSE PhoneMatchAt(s, Min(starts))

\* re.findall(phone_pattern, s)[0]: with one group in the pattern, findall
\* returns the text of the group, not of the match
FirstPhone(s) ==
    IF FirstPhoneMatch(s) = None THEN None
    ELSE Some(FirstPhoneMatch(s)[1].group)

extract_contact_info(t) ==
    [email |-> FirstEmail(t), phone |-> FirstPhone(t)]

RECURSIVE SumCoverage(_, _)
\* sum(cat['coverage_percentage'] for cat in keyword_scores.values())
SumCoverage(keyword_scores, categories) ==
    IF categories = <<>> THEN 0
    ELSE keyword_scores[Head(categories)].coverage_percentage
         + SumCoverage(keyword_scores, Tail(categories))

\* calculate_overall_score with 30 points for each section and no cap
calculate_overall_score_uncapped(a) ==
    LET section_score == Len(a.sections_found) * 45000
        keyword_score == 2 * SumCoverage(a.keyword_scores, CategoryOrder)
        contact_score == IF Truthy(a.contact_info.email) \/ Truthy(a.contact_info.phone)
                         THEN 15000 ELSE 0
    IN  RoundHalfEven(section_score + keyword_score + contact_score, 15)

\* calculate_overall_score with the section count divided by 4
calculate_overall_score_of_four(a) ==
    LET section_score == Len(a.sections_found) * 11250
        keyword_score == 2 * SumCoverage(a.keyword_scores, CategoryOrder)
        contact_score == IF Truthy(a.contact_info.email) \/ Truthy(a.contact_info.phone)
                         THEN 15000 ELSE 0
        score == section_score + keyword_score + contact_score
        capped == IF score > 150000 THEN 150000 ELSE score
    IN  RoundHalfEven(capped, 15)

\* calculate_overall_score with the coverage sum not divided by 3
calculate_overall_score_of_sum(a) ==
    LET section_score == Len(a.sections_found) * 9000
        keyword_score == 6 * SumCoverage(a.keyword_scores, CategoryOrder)
        contact_score == IF Truthy(a.contact_info.email) \/ Truthy(a.contact_info.phone)
                         THEN 15000 ELSE 0
        score == section_score + keyword_score + contact_score
        capped == IF score > 150000 THEN 150000 ELSE score
    IN  RoundHalfEven(capped, 15)

\* score = len(sections)/5*30 + sum/3*0.4 + contact, in units of 1/1500:
\* a section is 6 = 9000/1500, a hundredth of coverage 0.4/3/100 = 2/1500
calculate_overall_score(a) ==
    LET section_score == Len(a.sections_found) * 9000
        keyword_score == 2 * SumCoverage(a.keyword_scores, CategoryOrder)
        contact_score == IF Truthy(a.contact_info.email) \/ Truthy(a.contact_info.phone)
                         THEN 15000 ELSE 0
        score == section_score + keyword_score + contact_score
        capped == IF score > 150000 THEN 150000 ELSE score
    IN  RoundHalfEven(capped, 15)

analyze_resume_content(self, t) ==
    LET sections == detect_sections(t)
        partial == [word_count       |-> SplitCount(t),
                    sections_found   |-> sections,
                    missing_sections |-> find_missing_sections(sections),
                    keyword_scores   |-> analyze_keywords(self, t),
                    contact_info     |-> extract_contact_info(t)]
    IN  [word_count       |-> partial.word_count,
         sections_found   |-> partial.sections_found,
         missing_sections |-> partial.missing_sections,
         keyword_scores   |-> partial.keyword_scores,
         contact_info     |-> partial.contact_info,
         overall_score    |-> calculate_overall_score(partial)]

SectionLine(missing_section) ==
    "Add '" \o title(replace_underscore(missing_section)) \o "' section"

KeywordLine(category, score) ==
    "Add more " \o replace_underscore(category) \o " like: "
        \o Join(", ", Take(score.missing_keywords, 3))

RECURSIVE SectionLines(_)
SectionLines(missing_sections) ==
    IF missing_sections = <<>> THEN <<>>
    ELSE <<SectionLine(Head(missing_sections))>> \o SectionLines(Tail(missing_sections))

RECURSIVE KeywordLines(_, _)
KeywordLines(keyword_scores, categories) ==
    IF categories = <<>> THEN <<>>
    ELSE (IF keyword_scores[Head(categories)].coverage_percentage < 5000
          THEN <<KeywordLine(Head(categories), keyword_scores[Head(categories)])>>
          ELSE <<>>)
         \o KeywordLines(keyword_scores, Tail(categories))

\* generate_recommendations with the contact lines ahead of the others
generate_recommendations_contact_first(a) ==
    (IF ~Truthy(a.contact_info.email) THEN <<"Add professional email address">> ELSE <<>>)
    \o (IF ~Truthy(a.contact_info.phone) THEN <<"Add phone number">> ELSE <<>>)
    \o SectionLines(a.missing_sections)
    \o KeywordLines(a.keyword_scores, CategoryOrder)

\* generate_recommendations with the test of the email field inverted
generate_recommendations_email_inverted(a) ==
    SectionLines(a.missing_sections)
    \o KeywordLines(a.keyword_scores, CategoryOrder)
    \o (IF Truthy(a.contact_info.email) THEN <<"Add professional email address">> ELSE <<>>)
    \o (IF ~Truthy(a.contact_info.phone) THEN <<"Add phone number">> ELSE <<>>)

generate_recommendations(a) ==
    SectionLines(a.missing_sections)
    \o KeywordLines(a.keyword_scores, CategoryOrder)
    \o (IF ~Truthy(a.contact_info.email) THEN <<"Add professional email address">> ELSE <<>>)
    \o (IF ~Truthy(a.contact_info.phone) THEN <<"Add phone number">> ELSE <<>>)

(***************************************************************************)
(* Inputs.                                                                 *)
(***************************************************************************)
\* the longest text is made of MaxParts fragments
MaxParts == 3

\* the number of ResumeAnalyzer instances
NumInstances == 2

\* the longest file has MaxPages pages or paragraphs
MaxPages == 2

Instances == 1..NumInstances

Fragments ==
    <<"I have experience in Python and SQL. Contact: jane@example.com, 555-123-4567.",
      "Email: john.doe@mail.example.org\nPhone: +1 (555) 123-4567",
      "WORK HISTORY\nDeveloped, managed, implemented, created, led and analyzed projects in Python, JavaScript, SQL, HTML, CSS, React, Git and AWS.",
      "Education: BSc. Skills: communication, leadership, teamwork, problem solving, time management.",
      "Java developer; managed employment portfolio",
      "Academic address 5551234567",
      "Misled? Created and developed a plan.">>

Range(f) == {f[k] : k \in DOMAIN f}

SeqsUpTo(S, n) == UNION {[1..k -> S] : k \in 0..n}

\* the texts analyze_resume_content is called with; the empty text is one
Texts == {Join("\n", parts) : parts \in SeqsUpTo(Range(Fragments), MaxParts)}

\* the texts of the calls that are compared with each other
CallTexts ==
    {"", "Contact", "jane@example.com", "555-123-4567", "+1 555-123-4567",
     "Python and SQL skills", "Led projects", "Education: teamwork",
     Fragments[5], Fragments[6]}

PdfType == "application/pdf"

DocxType == "application/vnd.openxmlformats-officedocument.wordprocessingml.document"

TxtType == "text/plain"

\* the text of a page or a paragraph, or the content of a text file
Pages == {"", " \t ", Fragments[1], Fragments[5]}

\* an uploaded file: its declared type, its pages (PDF), paragraphs (DOCX) or
\* content (anything else), and whether its payload fails to parse or decode
Files ==
    {[type |-> ty, parts |-> ps, corrupt |-> c] :
        ty \in {PdfType, DocxType}, ps \in SeqsUpTo(Pages, MaxPages), c \in BOOLEAN}
    \cup {[type |-> TxtType, parts |-> <<p>>, corrupt |-> c] :
        p \in Pages, c \in BOOLEAN}

RECURSIVE AppendEach(_)
\* text = "";  for part in parts: text += part + "\n"
AppendEach(parts) ==
    IF parts = <<>> THEN ""
    ELSE Head(parts) \o "\n" \o AppendEach(Tail(parts))

\* extract_text_from_file when the payload parses
extract_text_from_file(f) ==
    IF f.type = PdfType THEN strip(AppendEach(f.parts))
    ELSE IF f.type = DocxType THEN strip(AppendEach(f.parts))
    ELSE strip(f.parts[1])

\* str(e) of the exception a payload that does not parse raises
ExtractionError(f) ==
    IF f.type = PdfType THEN "EOF marker not found"
    ELSE IF f.type = DocxType THEN "File is not a zip file"
    ELSE "'utf-8' codec can't decode byte 0xff in position 0: invalid start byte"

\* st.error(...) of the empty-text branch
EmptyContentMessage ==
    [kind |-> "error",
     body |-> "Could not extract text from the file. Please try another file."]

\* st.error(...) of the except clause
FailureMessage(e) == [kind |-> "error", body |-> "Error analyzing resume: " \o e]

\* st.success(...)
SuccessMessage ==
    [kind |-> "success", body |-> "Analysis Complete! Here's your resume report:"]

(***************************************************************************)
(* Spec: one analysis of a text drawn from Texts, then the recommendations *)
(* for its report.                                                         *)
(***************************************************************************)
Init ==
    /\ keyword_categories = [i \in Instances |-> ResumeAnalyzer]
    /\ pc = "start"
    /\ uploaded_file = None
    /\ text \in {Some(t) : t \in Texts}
    /\ analysis = None
    /\ recommendations = None
    /\ messages = <<>>
    /\ calls = [i \in Instances |-> None]

\* the instance the single-call specifications use
analyzer == 1

\* analysis = analyzer.analyze_resume_content(text)
Analyze ==
    /\ pc = "start"
    /\ analysis' = Some(analyze_resume_content(keyword_categories[analyzer], text[1]))
    /\ pc' = "analyzed"
    /\ UNCHANGED <<keyword_categories, uploaded_file, text, recommendations,
                   messages, calls>>

\* recommendations = analyzer.generate_recommendations(analysis)
Recommend ==
    /\ pc = "analyzed"
    /\ recommendations' = Some(generate_recommendations(analysis[1]))
    /\ pc' = "recommended"
    /\ UNCHANGED <<keyword_categories, uploaded_file, text, analysis,
                   messages, calls>>

Next ==
    \/ Analyze
    \/ Recommend

Spec == Init /\ [][Next]_vars

(***************************************************************************)
(* SpecCalls: calls of analyze_resume_content on the instances, in any     *)
(* order; calls[i] is the last call on instance i and what it returned.    *)
(***************************************************************************)
InitCalls ==
    /\ keyword_categories = [i \in Instances |-> ResumeAnalyzer]
    /\ pc = "calls"
    /\ uploaded_file = None
    /\ text = None
    /\ analysis = None
    /\ recommendations = None
    /\ messages = <<>>
    /\ calls = [i \in Instances |-> None]

\* Call with the keywords it finds removed from the lists of the instance
CallConsuming(self, t) ==
    LET report == analyze_resume_content(keyword_categories[self], t)
    IN  /\ pc = "calls"
        /\ calls' = [calls EXCEPT ![self] = Some([text |-> t, report |-> report])]
        /\ keyword_categories' =
               [keyword_categories EXCEPT ![self] =
                   [c \in DOMAIN @ |-> report.keyword_scores[c].missing_keywords]]
        /\ UNCHANGED <<pc, uploaded_file, text, analysis, recommendations, messages>>

\* analyzer.analyze_resume_content(t) on instance self: no method assigns
\* to self.keyword_categories or to the lists it holds
Call(self, t) ==
    /\ pc = "calls"
    /\ calls' = [calls EXCEPT ![self] =
                    Some([text   |-> t,
                          report |-> analyze_resume_content(keyword_categories[self], t)])]
    /\ keyword_categories' = keyword_categories
    /\ UNCHANGED <<pc, uploaded_file, text, analysis, recommendations, messages>>

NextCalls == \E self \in Instances, t \in CallTexts : Call(self, t)

SpecCalls == InitCalls /\ [][NextCalls]_vars

(***************************************************************************)
(* SpecHandler: the page script.  A run of the script shows the uploader;  *)
(* with a file uploaded it shows the button, and a click on the button     *)
(* runs the try block step by step.                                        *)
(***************************************************************************)
InitHandler ==
    /\ keyword_categories = [i \in Instances |-> ResumeAnalyzer]
    /\ pc = "welcome"
    /\ uploaded_file = None
    /\ text = None
    /\ analysis = None
    /\ recommendations = None
    /\ messages = <<>>
    /\ calls = [i \in Instances |-> None]

\* the user uploads a file: the script reruns and shows the button
Upload(f) ==
    /\ pc \in {"welcome", "ready", "done"}
    /\ uploaded_file' = Some(f)
    /\ pc' = "ready"
    /\ text' = None
    /\ analysis' = None
    /\ recommendations' = None
    /\ messages' = <<>>
    /\ UNCHANGED <<keyword_categories, calls>>

\* the user clicks the button: analyzer = ResumeAnalyzer()
Click ==
    /\ pc \in {"ready", "done"}
    /\ keyword_categories' = [keyword_categories EXCEPT ![analyzer] = ResumeAnalyzer]
    /\ pc' = "extract"
    /\ text' = None
    /\ analysis' = None
    /\ recommendations' = None
    /\ messages' = <<>>
    /\ UNCHANGED <<uploaded_file, calls>>

\* extract_text_from_file raises: the except clause reports str(e)
ExtractRaises ==
    /\ pc = "extract"
    /\ uploaded_file[1].corrupt
    /\ messages' = Append(messages, FailureMessage(ExtractionError(uploaded_file[1])))
    /\ pc' = "done"
    /\ UNCHANGED <<keyword_categories, uploaded_file, text, analysis,
                   recommendations, calls>>

\* text = analyzer.extract_text_from_file(uploaded_file)
ExtractReturns ==
    /\ pc = "extract"
    /\ ~uploaded_file[1].corrupt
    /\ text' = Some(extract_text_from_file(uploaded_file[1]))
    /\ pc' = "check"
    /\ UNCHANGED <<keyword_categories, uploaded_file, analysis,
                   recommendations, messages, calls>>

\* if not text.strip(): st.error(...)
EmptyContent ==
    /\ pc = "check"
    /\ strip(text[1]) = ""
    /\ messages' = Append(messages, EmptyContentMessage)
    /\ pc' = "done"
    /\ UNCHANGED <<keyword_categories, uploaded_file, text, analysis,
                   recommendations, calls>>

\* HandlerAnalyze without the test of the extracted text
HandlerAnalyzeUnchecked ==
    /\ pc = "check"
    /\ analysis' = Some(analyze_resume_content(keyword_categories[analyzer], text[1]))
    /\ pc' = "recommend"
    /\ UNCHANGED <<keyword_categories, uploaded_file, text, recommendations,
                   messages, calls>>

\* else: analysis = analyzer.analyze_resume_content(text)
HandlerAnalyze ==
    /\ pc = "check"
    /\ strip(text[1]) # ""
    /\ analysis' = Some(analyze_resume_content(keyword_categories[analyzer], text[1]))
    /\ pc' = "recommend"
    /\ UNCHANGED <<keyword_categories, uploaded_file, text, recommendations,
                   messages, calls>>

\* recommendations = analyzer.generate_recommendations(analysis)
HandlerRecommend ==
    /\ pc = "recommend"
    /\ recommendations' = Some(generate_recommendations(analysis[1]))
    /\ pc' = "render"
    /\ UNCHANGED <<keyword_categories, uploaded_file, text, analysis,
                   messages, calls>>

\* st.success(...) and the rendering of the report
Render ==
    /\ pc = "render"
    /\ messages' = Append(messages, SuccessMessage)
    /\ pc' = "done"
    /\ UNCHANGED <<keyword_categories, uploaded_file, text, analysis,
                   recommendations, calls>>

NextHandler ==
    \/ \E f \in Files : Upload(f)
    \/ Click
    \/ ExtractRaises
    \/ ExtractReturns
    \/ EmptyContent
    \/ HandlerAnalyze
    \/ HandlerRecommend
    \/ Render

SpecHandler == InitHandler /\ [][NextHandler]_vars

(***************************************************************************)
(* Properties.                                                             *)
(***************************************************************************)
Abs(x) == IF x < 0 THEN -x ELSE x

AllCoverage(a, value) ==
    \A c \in Range(CategoryOrder) : a.keyword_scores[c].coverage_percentage = value

HasContact(a) == Truthy(a.contact_info.email) \/ Truthy(a.contact_info.phone)

\* the score before the cap and the rounding, in units of 1/1500 of a point:
\* (sections / 5) * 30 + (mean coverage) * 0.4 + 10 for a contact field
ExactScore(a) ==
    Len(a.sections_found) * 9000
    + 2 * (a.keyword_scores.technical_skills.coverage_percentage
           + a.keyword_scores.soft_skills.coverage_percentage
           + a.keyword_scores.action_verbs.coverage_percentage)
    + (IF HasContact(a) THEN 15000 ELSE 0)

\* C1: the overall_score of every report, the one of the empty text
\* included, lies in [0, 100].
ScoreInRange ==
    analysis # None =>
        analysis[1].overall_score >= 0 /\ analysis[1].overall_score <= 10000

\* the empty text has been analyzed
ScoreInRangeWitness ==
    analysis # None /\ text = Some("") /\ analysis[1].overall_score = 0

\* C2: the phone field is the whole text of the first match of the phone
\* pattern, and None only when the pattern matches nowhere.
PhoneIsFirstMatch ==
    analysis # None =>
        LET m == FirstPhoneMatch(text[1])
        IN  analysis[1].contact_info.phone =
                IF m = None THEN None
                ELSE Some(SubSeq(text[1], m[1].first, m[1].last))

\* C3: overall_score is (sections / 5) * 30 + (mean coverage) * 0.4 + 10 for
\* a non-empty contact field, capped at 100 and rounded to the nearest
\* hundredth; at most the 4 important tags are reported missing.
ScoreFormula ==
    analysis # None =>
        LET a == analysis[1]
            capped == IF ExactScore(a) > 150000 THEN 150000 ELSE ExactScore(a)
        IN  /\ 2 * Abs(15 * a.overall_score - capped) <= 15
            /\ Len(a.sections_found) <= 5
            /\ Len(a.missing_sections) <= 4
            /\ Range(a.missing_sections) \subseteq Range(important_sections)

\* a report with all three terms of the score and a rounded coverage
ScoreFormulaWitness ==
    /\ analysis # None
    /\ Len(analysis[1].sections_found) = 2
    /\ analysis[1].keyword_scores.technical_skills.coverage_percentage = 2222
    /\ HasContact(analysis[1])
    /\ analysis[1].overall_score = 2496

\* C4: missing_sections and sections_found are disjoint; missing_sections and
\* the detected important tags make up the four important tags; projects is
\* never missing; a text that matches no section pattern has no section
\* found and all four important tags missing.
SectionsPartition ==
    analysis # None =>
        LET a == analysis[1]
            found == Range(a.sections_found)
            missing == Range(a.missing_sections)
            important == {"contact_info", "experience", "education", "skills"}
            NoPattern == \A tag \in Range(SectionOrder) :
                            ~re_search(section_patterns[tag], lower(text[1]))
        IN  /\ found \cap missing = {}
            /\ missing \cup (found \cap important) = important
            /\ "projects" \notin missing
            /\ NoPattern => /\ a.sections_found = <<>>
                            /\ a.missing_sections =
                                 <<"contact_info", "experience", "education", "skills">>

\* projects is found and some, not all, important tags are missing
SectionsPartitionWitness ==
    /\ analysis # None
    /\ InList("projects", analysis[1].sections_found)
    /\ Len(analysis[1].missing_sections) = 3

\* C5: in each category found_keywords and missing_keywords are disjoint and
\* free of duplicates, together they are the vocabulary __init__ gives the
\* category, and coverage_percentage is found / vocabulary * 100 rounded to
\* the nearest hundredth.
KeywordsPartition ==
    analysis # None =>
        /\ DOMAIN analysis[1].keyword_scores = Range(CategoryOrder)
        /\ \A c \in Range(CategoryOrder) :
              LET score == analysis[1].keyword_scores[c]
                  found == Range(score.found_keywords)
                  missing == Range(score.missing_keywords)
                  vocabulary == Range(ResumeAnalyzer[c])
              IN  /\ found \cap missing = {}
                  /\ Cardinality(found) = Len(score.found_keywords)
                  /\ Cardinality(missing) = Len(score.missing_keywords)
                  /\ found \cup missing = vocabulary
                  /\ 2 * Abs(score.coverage_percentage * Cardinality(vocabulary)
                             - 10000 * Cardinality(found))
                        <= Cardinality(vocabulary)

\* a category with found and missing keywords and a coverage rounded up
KeywordsPartitionWitness ==
    /\ analysis # None
    /\ analysis[1].keyword_scores.action_verbs.coverage_percentage = 1667
    /\ analysis[1].keyword_scores.technical_skills.found_keywords = <<"java">>

SectionTitle ==
    [contact_info |-> "Contact Info", experience |-> "Experience",
     education |-> "Education", skills |-> "Skills"]

CategoryWords ==
    [technical_skills |-> "technical skills", soft_skills |-> "soft skills",
     action_verbs |-> "action verbs"]

\* the list C6 describes
ExpectedRecommendations(a) ==
    LET IsMissing(section) == InList(section, a.missing_sections)
        IsLow(c) == a.keyword_scores[c].coverage_percentage < 5000
        sections == SelectSeq(<<"contact_info", "experience", "education", "skills">>,
                              IsMissing)
        categories == SelectSeq(<<"technical_skills", "soft_skills", "action_verbs">>,
                                IsLow)
        FirstThree(c) ==
            LET m == a.keyword_scores[c].missing_keywords
            IN  IF Len(m) = 0 THEN ""
                ELSE IF Len(m) = 1 THEN m[1]
                ELSE IF Len(m) = 2 THEN m[1] \o ", " \o m[2]
                ELSE m[1] \o ", " \o m[2] \o ", " \o m[3]
    IN  [k \in 1..Len(sections) |-> "Add '" \o SectionTitle[sections[k]] \o "' section"]
        \o [k \in 1..Len(categories) |->
               "Add more " \o CategoryWords[categories[k]] \o " like: "
                   \o FirstThree(categories[k])]
        \o (IF ~Truthy(a.contact_info.email)
            THEN <<"Add professional email address">> ELSE <<>>)
        \o (IF ~Truthy(a.contact_info.phone) THEN <<"Add phone number">> ELSE <<>>)

\* C6: the recommendations are, in this order, a line for each missing
\* section in the order of the important tags, a line for each category
\* under 50% in declaration order with its first up to 3 missing keywords,
\* the email line without an email, the phone line without a phone.
RecommendationOrder ==
    recommendations # None =>
        recommendations[1] = ExpectedRecommendations(analysis[1])

\* lines of the section, keyword and contact groups, a category at 50% or
\* more and one with fewer than 3 missing keywords
RecommendationOrderWitness ==
    /\ recommendations # None
    /\ analysis[1].missing_sections # <<>>
    /\ analysis[1].keyword_scores.technical_skills.coverage_percentage >= 5000
    /\ analysis[1].keyword_scores.soft_skills.coverage_percentage < 5000
    /\ ~Truthy(analysis[1].contact_info.phone)
    /\ Truthy(analysis[1].contact_info.email)

\* C7: the report and the recommendations exist only when extraction
\* returned a text that is not empty after trimming; a click that ends after
\* a raising extraction or an empty text has surfaced exactly one message, an
\* error, and produced neither, and the two outcomes have different messages.
HandlerOutcome ==
    /\ (analysis # None \/ recommendations # None) =>
          /\ ~uploaded_file[1].corrupt
          /\ text # None
          /\ strip(text[1]) # ""
    /\ (pc = "done" /\ uploaded_file[1].corrupt) =>
          /\ text = None /\ analysis = None /\ recommendations = None
          /\ Len(messages) = 1
          /\ messages[1].kind = "error"
          /\ messages[1] # EmptyContentMessage
    /\ (pc = "done" /\ text # None /\ strip(text[1]) = "") =>
          /\ analysis = None /\ recommendations = None
          /\ messages = <<EmptyContentMessage>>
          /\ messages[1].kind = "error"
          /\ \A f \in Files : messages[1] # FailureMessage(ExtractionError(f))

\* a click on a file with whitespace alone has ended
HandlerOutcomeWitness ==
    /\ pc = "done"
    /\ uploaded_file # None
    /\ ~uploaded_file[1].corrupt
    /\ text = Some("")
    /\ messages = <<EmptyContentMessage>>

\* C8: calls with the same text return the same report, on one instance or
\* on two and whatever calls come between, and no call changes the
\* vocabularies of an instance.
PureAnalysis ==
    [][/\ keyword_categories' = keyword_categories
       /\ \A i \in Instances : keyword_categories'[i] = ResumeAnalyzer
       /\ \A i, j \in Instances :
             /\ (calls'[i] # None /\ calls'[j] # None
                   /\ calls'[i][1].text = calls'[j][1].text)
                  => calls'[i][1].report = calls'[j][1].report
             /\ (calls[i] # None /\ calls'[j] # None
                   /\ calls[i][1].text = calls'[j][1].text)
                  => calls[i][1].report = calls'[j][1].report]_vars

\* both instances were last called with the same text, one with keywords
PureAnalysisWitness ==
    \E i, j \in Instances :
        /\ i # j
        /\ calls[i] # None /\ calls[j] # None
        /\ calls[i][1].text = calls[j][1].text
        /\ calls[i][1].report.keyword_scores.technical_skills.found_keywords # <<>>

\* C9: a report with no missing section, 100% coverage in the three
\* categories and both contact fields non-empty gets no recommendation.
PerfectReportNoRecommendations ==
    (/\ recommendations # None
     /\ analysis[1].missing_sections = <<>>
     /\ AllCoverage(analysis[1], 10000)
     /\ Truthy(analysis[1].contact_info.email)
     /\ Truthy(analysis[1].contact_info.phone))
    => recommendations[1] = <<>>

\* the recommendations of such a report have been generated
PerfectReportWitness ==
    /\ recommendations # None
    /\ analysis[1].missing_sections = <<>>
    /\ AllCoverage(analysis[1], 10000)
    /\ Truthy(analysis[1].contact_info.email)
    /\ Truthy(analysis[1].contact_info.phone)

\* C10: overall_score never exceeds 80, the score before the cap never
\* exceeds 100, and the score is 80 only with all 5 sections detected, 100%
\* coverage in the three categories and a non-empty contact field.
ScoreAtMostEighty ==
    analysis # None =>
        LET a == analysis[1]
        IN  /\ a.overall_score <= 8000
            /\ ExactScore(a) <= 150000
            /\ a.overall_score >= 8000 =>
                  /\ Len(a.sections_found) = 5
                  /\ AllCoverage(a, 10000)
                  /\ HasContact(a)

\* a report with the score 80
ScoreAtMostEightyWitness ==
    analysis # None /\ analysis[1].overall_score = 8000

====
